---- MODULE Spec2Model ----
(***************************************************************************)
(* Model of the task scheduling core of ai-agents-system:                  *)
(*   src/tasks/task_manager.py   TaskManager (queue, workers, retry)       *)
(*   src/tasks/task_executor.py  TaskExecutor (initialize/shutdown,        *)
(*                               workflows and their monitor)              *)
(*   src/tasks/complex_tasks.py  ComplexTaskBuilder (projects, monitor)    *)
(*   src/brain/agents/base_agent.py  BaseAgent.execute (the agent contract)*)
(* Two slips keep the modules from running as written: a stray quote at    *)
(* task_manager.py:269 and a missing 'import asyncio' in complex_tasks.py. *)
(* The model describes the code with both repaired.                        *)
(* Every coroutine is cut at its real suspension points (awaits that can   *)
(* yield to the event loop); code between two suspension points is one     *)
(* atomic action.  The awaits of _check_dependencies, _find_agent_for_task *)
(* and of put on the unbounded queue never suspend.  wait_for(get) hands   *)
(* the dequeued task to the worker in a later turn of the event loop, so   *)
(* the dequeue and the CANCELLED test of the worker are two steps.         *)
(*                                                                         *)
(* The queue holds task ids for the task dicts it holds in the program;    *)
(* tasks keeps the dict of every task created and removed names those that *)
(* cleanup_old_tasks has deleted from the table.  Of created_at only the   *)
(* age of a task (in hours) is kept; updated_at is not modelled.  What an  *)
(* agent reports in get_performance_report() is an input of each dispatch. *)
(* executions, cancelled_at and ret are history variables: they record     *)
(* what happened and no action reads them, but Phase reads executions to   *)
(* name the moment of a cancel.                                            *)
(***************************************************************************)
EXTENDS Integers, Sequences, FiniteSets, TLC

(* ---------------- bounds of the model ---------------- *)
\* number of create_task calls explored
MaxTasks == 1
\* longest dependency list a caller passes
MaxDeps == 1
\* largest total_tasks an agent reports for a task type
MaxHistory == 1
\* size of the worker pool explored (the program starts max_workers of them)
NumWorkers == 1

(* ---------------- program constants ---------------- *)
\* 'max_retries': 3 in create_task
max_retries == 3
\* default 'timeout' argument of create_task
DefaultTimeout == 300

TaskIds == 1..MaxTasks
\* an identifier that no create_task call ever returned
NoSuchTask == 0
Workers == 1..NumWorkers

\* Python's None for the string-valued fields
None == "None"

\* TaskStatus enum values
PENDING == "pending"
IN_PROGRESS == "in_progress"
COMPLETED == "completed"
FAILED == "failed"
CANCELLED == "cancelled"
TaskStatus == {PENDING, IN_PROGRESS, COMPLETED, FAILED, CANCELLED}

\* TaskPriority enum values
TaskPriority == {"low", "medium", "high", "critical"}

(* ---------------- inputs drawn by the callers ---------------- *)
TaskTypes == {"x"}
\* payload['required_capabilities'] of a task
CapabilityChoices == {{"x"}}
PriorityChoices == {"medium"}
TimeoutChoices == {DefaultTimeout}

\* the agents a registry can hold, with their capability lists
AgentIds == {"a1", "a2"}
capabilities(a) == IF a = "a1" THEN {"x"} ELSE {}
\* agent_registry values in iteration order
RegistryChoices == {<<>>, <<"a2", "a1">>}

\* what one call of agent.execute(task) can do
\*   success      process_task returned, execute returns its result
\*   error_result process_task raised, BaseAgent.execute returns {"status": "error", ...}
\*   raise        execute itself raises (an agent that does not shield exceptions)
\*   timeout      execute does not finish within task['timeout']
Outcomes == {"success", "error_result", "raise", "timeout"}

\* the payloads an agent hands back
SuccessResult == "{status: success}"
ErrorResult == "{status: error}"

VARIABLES
    tasks,          \* TaskManager.tasks: task_id -> task dict
    task_queue,     \* TaskManager.task_queue: FIFO of task ids
    next_id,        \* the next fresh task id (uuid4 never repeats)
    is_running,     \* TaskManager.is_running
    is_initialized, \* TaskExecutor.is_initialized
    agent_registry, \* TaskManager.agent_registry (iteration order)
    wpc,            \* position of each worker coroutine
    wtask,          \* the task a worker holds
    wagent,         \* the agent a worker is awaiting
    stopping,       \* stop_workers is awaiting the workers
    ret,            \* return value of the last cancel_task call
    executions,     \* per task: number of agent.execute calls started
    cancelled_at,   \* per task: the phase of the first cancel_task that returned True
    find_args,      \* the arguments of a _find_agent_for_task call studied on its own
    find_ret,       \* what that call returned
    status_ret,     \* what the last get_task_status call returned: {} for None,
                    \* {snapshot} for a dict
    complex_task,   \* ComplexTaskBuilder.complex_tasks[project_id] of the one project
    mpc,            \* position of the project's _monitor_complex_task coroutine
    workflow,       \* the locals of the one _monitor_workflow coroutine: its arguments
                    \* steps, conditions and task_map, completed_steps, workflow_results
    wfpc,           \* position of that coroutine
    wfh,            \* history of the workflow monitor: what each poll observed
    removed,        \* the task ids cleanup_old_tasks has deleted from TaskManager.tasks
    age             \* per task: whole hours elapsed since its created_at (no entry: none)

vars == <<tasks, task_queue, next_id, is_running, is_initialized, agent_registry,
          wpc, wtask, wagent, stopping, ret, executions, cancelled_at,
          find_args, find_ret, status_ret, complex_task, mpc,
          workflow, wfpc, wfh, removed, age>>

\* the variables of the scheduling core
core_vars == <<tasks, task_queue, next_id, is_running, is_initialized, agent_registry,
               wpc, wtask, wagent, stopping, ret, executions, cancelled_at>>
\* the variables of the selection study
find_vars == <<find_args, find_ret>>
\* the variables of ComplexTaskBuilder
project_vars == <<complex_task, mpc>>
\* the variables of TaskExecutor._monitor_workflow
workflow_vars == <<workflow, wfpc, wfh>>
\* the variables of the cleanup sweep
cleanup_vars == <<removed, age>>
\* the variables no worker step and none of create_task, cancel_task,
\* start_workers, stop_workers writes
outside_vars == <<find_vars, status_ret, project_vars, workflow_vars, cleanup_vars>>

(* ---------------- helpers ---------------- *)
SeqToSet(s) == {s[i] : i \in 1..Len(s)}

InQueue(t) == t \in SeqToSet(task_queue)

\* the worker id string f"worker-{i+1}"
WorkerName(w) == "worker-" \o ToString(w)

\* the workers that currently hold task t
Holders(t) == {w \in DOMAIN wpc : wpc[w] \in {"got", "exec"} /\ wtask[w] = t}

\* the workers awaiting agent.execute for task t
Executing(t) == {w \in DOMAIN wpc : wpc[w] = "exec" /\ wtask[w] = t}

\* the keys of TaskManager.tasks: every task created and not deleted by cleanup.
\* tasks keeps the record of a deleted task, as the queue and the workers keep
\* the dict itself
Table == DOMAIN tasks \ removed

(* ---------------- the agents' performance reports ---------------- *)
\* performance['performance_metrics'].get(task_type, {}) of one agent: its
\* total_tasks and successful_tasks for the type; total_tasks = 0 stands for
\* the missing entry
HistoryChoices ==
    {h \in [total_tasks : 0..MaxHistory, successful_tasks : 0..MaxHistory] :
        h.successful_tasks <= h.total_tasks}
\* one report per registered agent, as read during one _find_agent_for_task
PerformanceChoices == [AgentIds -> HistoryChoices]

(* ---------------- pure functions of TaskManager ---------------- *)

\* TaskManager._check_dependencies: every dependency is in the table and COMPLETED
check_dependencies_known_only(dependencies) ==
    \A dep_id \in dependencies :
        dep_id \in Table => tasks[dep_id].status = COMPLETED
check_dependencies(dependencies) ==
    \A dep_id \in dependencies :
        dep_id \in Table /\ tasks[dep_id].status = COMPLETED

\* A score is kept exactly, as the fraction <<numerator, denominator>>.
\* 'score > best_score'
ScoreAtLeast(a, b) == a[1] * b[2] >= b[1] * a[2]
ScoreGreater(a, b) == a[1] * b[2] > b[1] * a[2]
ZeroScore == <<0, 1>>

\* TaskManager._calculate_agent_suitability:
\*   0.5 if the agent covers the required capabilities
\* + 0.3 * successful_tasks / total_tasks when the agent has metrics for the type
\* + 0.2 always
calculate_agent_suitability_without_base(agent, task_performance, required_capabilities) ==
    LET covers == IF required_capabilities \subseteq capabilities(agent) THEN 5 ELSE 0
        has_history == task_performance.total_tasks > 0
        total == IF has_history THEN task_performance.total_tasks ELSE 1
        successful == IF has_history THEN task_performance.successful_tasks ELSE 0
    IN  <<covers * total + 3 * successful, 10 * total>>
calculate_agent_suitability_light_capability(agent, task_performance, required_capabilities) ==
    LET covers == IF required_capabilities \subseteq capabilities(agent) THEN 2 ELSE 0
        has_history == task_performance.total_tasks > 0
        total == IF has_history THEN task_performance.total_tasks ELSE 1
        successful == IF has_history THEN task_performance.successful_tasks ELSE 0
    IN  <<(covers + 2) * total + 3 * successful, 10 * total>>
calculate_agent_suitability_gated(agent, task_performance, required_capabilities) ==
    LET has_history == task_performance.total_tasks > 0
        total == IF has_history THEN task_performance.total_tasks ELSE 1
        successful == IF has_history THEN task_performance.successful_tasks ELSE 0
    IN  IF required_capabilities \subseteq capabilities(agent)
        THEN <<7 * total + 3 * successful, 10 * total>>
        ELSE <<0, 1>>
calculate_agent_suitability(agent, task_performance, required_capabilities) ==
    LET covers == IF required_capabilities \subseteq capabilities(agent) THEN 5 ELSE 0
        has_history == task_performance.total_tasks > 0
        total == IF has_history THEN task_performance.total_tasks ELSE 1
        successful == IF has_history THEN task_performance.successful_tasks ELSE 0
    IN  <<(covers + 2) * total + 3 * successful, 10 * total>>

\* the loop of _find_agent_for_task over the registry from position i on,
\* carrying best_agent and best_score
RECURSIVE find_agent_loop(_, _, _, _, _, _)
find_agent_loop(registry, performance, task, i, best_agent, best_score) ==
    IF i > Len(registry) THEN <<best_agent, best_score>>
    ELSE LET agent == registry[i]
             score == calculate_agent_suitability(agent, performance[agent],
                                                  task.required_capabilities)
         IN  IF ScoreGreater(score, best_score)
             THEN find_agent_loop(registry, performance, task, i + 1, agent, score)
             ELSE find_agent_loop(registry, performance, task, i + 1,
                                  best_agent, best_score)

\* TaskManager._find_agent_for_task: best_agent if best_score > 0 else None
find_agent_for_task(registry, performance, task) ==
    LET best == find_agent_loop(registry, performance, task, 1, None, ZeroScore)
    IN  IF ScoreGreater(best[2], ZeroScore) THEN best[1] ELSE None

\* error texts written by _process_task
DependenciesNotMet == "Dependencies not met"
NoSuitableAgent(task) == "No suitable agent found for task type: " \o task.type
TimeoutError(task) == "Task timeout after " \o ToString(task.timeout) \o " seconds"
\* str(e) of an exception raised by agent.execute
AgentException == "agent raised"

(* ---------------- initial state ---------------- *)
\* no _find_agent_for_task call is studied on its own
NotCalled == "not called"
NoFindCall ==
    /\ find_args = [registry |-> <<>>,
                    performance |-> [a \in AgentIds |->
                                        [total_tasks |-> 0, successful_tasks |-> 0]],
                    required_capabilities |-> {}]
    /\ find_ret = NotCalled
\* get_task_status has returned nothing yet
NoStatusCall == status_ret = {}
\* ComplexTaskBuilder.__init__: complex_tasks = {}, no monitor coroutine
NoProject ==
    /\ complex_task = [status |-> "none", current_step |-> 0, total_steps |-> 0,
                       task_ids |-> <<>>, results |-> <<>>, progress |-> <<>>]
    /\ mpc = "none"
\* no execute_workflow call yet
NoWorkflow ==
    /\ workflow = [steps |-> <<>>, conditions |-> <<>>, task_map |-> <<>>,
                   completed_steps |-> {}, workflow_results |-> <<>>]
    /\ wfpc = "none"
    /\ wfh = [evaluations |-> <<>>, observed_failed |-> {}, broke |-> FALSE]
\* no cleanup_old_tasks call yet, no task has aged
NoCleanup ==
    /\ removed = {}
    /\ age = <<>>
\* nothing outside the scheduling core has happened
OutsideInit == NoFindCall /\ NoStatusCall /\ NoProject /\ NoWorkflow /\ NoCleanup

\* TaskExecutor.__init__ / TaskManager.__init__, for a run that creates the
\* tasks task_ids, is given the registry and whose pool is made of workers
StartPool(task_ids, registry, workers) ==
    /\ tasks = <<>>
    /\ task_queue = <<>>
    /\ next_id = 1
    /\ is_running = FALSE
    /\ is_initialized = FALSE
    /\ agent_registry = registry
    /\ wpc = [w \in workers |-> "done"]
    /\ wtask = [w \in workers |-> NoSuchTask]
    /\ wagent = [w \in workers |-> None]
    /\ stopping = FALSE
    /\ ret = FALSE
    /\ executions = [t \in task_ids |-> 0]
    /\ cancelled_at = [t \in task_ids |-> "never"]

\* the same with the pool Workers
StartState(task_ids, registry) == StartPool(task_ids, registry, Workers)

CoreInit == \E registry \in RegistryChoices : StartState(TaskIds, registry)

Init == CoreInit /\ OutsideInit

(* ---------------- TaskManager API ---------------- *)

\* the task dict create_task builds
new_task(task_type, required_capabilities, priority, dependencies, timeout) ==
    [type |-> task_type,
     required_capabilities |-> required_capabilities,
     priority |-> priority,
     status |-> PENDING,
     dependencies |-> dependencies,
     timeout |-> timeout,
     retry_count |-> 0,
     max_retries |-> max_retries,
     assigned_agent |-> None,
     result |-> None,
     error |-> None]

\* TaskManager.create_task: a new PENDING record, stored and enqueued
create_task(task_type, required_capabilities, priority, dependencies, timeout) ==
    /\ LET task_id == next_id
           task == new_task(task_type, required_capabilities, priority,
                            dependencies, timeout)
       IN  /\ tasks' = [t \in DOMAIN tasks \cup {task_id} |->
                            IF t = task_id THEN task ELSE tasks[t]]
           /\ task_queue' = Append(task_queue, task_id)
    /\ next_id' = next_id + 1
    /\ UNCHANGED <<ret, is_running, is_initialized, agent_registry,
                   wpc, wtask, wagent, stopping, executions, cancelled_at>>
    /\ UNCHANGED outside_vars

\* the dict get_task_status builds for a task of the table
snapshot(task_id) ==
    [task_id |-> task_id,
     type |-> tasks[task_id].type,
     status |-> tasks[task_id].status,
     priority |-> tasks[task_id].priority,
     assigned_agent |-> tasks[task_id].assigned_agent,
     result |-> tasks[task_id].result,
     error |-> tasks[task_id].error]

\* TaskManager.get_task_status (TaskExecutor.get_task_result forwards to it):
\* a fresh dict of the task's fields, or None for an id that is not in the table
get_task_status_marking_read(task_id) ==
    /\ status_ret' = IF task_id \in Table THEN {snapshot(task_id)} ELSE {}
    /\ tasks' = [t \in DOMAIN tasks |->
                    IF t = task_id THEN [tasks[t] EXCEPT !.assigned_agent = None]
                    ELSE tasks[t]]
    /\ UNCHANGED <<task_queue, next_id, is_running, is_initialized, agent_registry,
                   wpc, wtask, wagent, stopping, ret, executions, cancelled_at,
                   find_vars, project_vars, workflow_vars, cleanup_vars>>
get_task_status(task_id) ==
    /\ status_ret' = IF task_id \in Table THEN {snapshot(task_id)} ELSE {}
    /\ UNCHANGED <<core_vars, find_vars, project_vars, workflow_vars, cleanup_vars>>

\* where a task is in its life when cancel_task is called on it
Phase(t) ==
    IF Executing(t) # {} THEN "running"
    ELSE IF Holders(t) # {} THEN "held"
    ELSE IF executions[t] = 0 THEN "fresh"
    ELSE "requeued"

\* the statuses cancel_task accepts
Cancellable_with_failed == {PENDING, IN_PROGRESS, FAILED}
Cancellable == {PENDING, IN_PROGRESS}

\* TaskManager.cancel_task (TaskExecutor.cancel_task forwards to it)
cancel_task(task_id) ==
    /\ IF task_id \in Table /\ tasks[task_id].status \in Cancellable
       THEN /\ tasks' = [tasks EXCEPT ![task_id].status = CANCELLED]
            /\ cancelled_at' = [cancelled_at EXCEPT ![task_id] =
                                   IF @ = "never" THEN Phase(task_id) ELSE @]
            /\ ret' = TRUE
       ELSE /\ ret' = FALSE
            /\ UNCHANGED <<tasks, cancelled_at>>
    /\ UNCHANGED <<task_queue, next_id, is_running, is_initialized, agent_registry,
                   wpc, wtask, wagent, stopping, executions>>
    /\ UNCHANGED outside_vars

(* ---------------- TaskExecutor lifecycle ---------------- *)

\* TaskExecutor.initialize -> TaskManager.start_workers
initialize ==
    /\ ~is_initialized
    /\ is_running' = TRUE
    /\ wpc' = [w \in DOMAIN wpc |-> "get"]
    /\ is_initialized' = TRUE
    /\ UNCHANGED <<tasks, task_queue, next_id, agent_registry,
                   wtask, wagent, stopping, ret, executions, cancelled_at>>
    /\ UNCHANGED outside_vars

\* TaskExecutor.shutdown -> TaskManager.stop_workers, up to the await of gather
shutdown ==
    /\ is_initialized
    /\ ~stopping
    /\ is_running' = FALSE
    /\ stopping' = TRUE
    /\ UNCHANGED <<tasks, task_queue, next_id, is_initialized, agent_registry,
                   wpc, wtask, wagent, ret, executions, cancelled_at>>
    /\ UNCHANGED outside_vars

\* stop_workers after gather: every worker coroutine has returned
stop_workers_return ==
    /\ stopping
    /\ \A w \in DOMAIN wpc : wpc[w] = "done"
    /\ stopping' = FALSE
    /\ is_initialized' = FALSE
    /\ UNCHANGED <<tasks, task_queue, next_id, is_running, agent_registry,
                   wpc, wtask, wagent, ret, executions, cancelled_at>>
    /\ UNCHANGED outside_vars

(* ---------------- TaskManager._worker ---------------- *)

\* the test of 'while self.is_running' at the top of the worker loop
LoopTop_single_pass == "done"
LoopTop == IF is_running THEN "get" ELSE "done"

\* rank of a TaskPriority value
PriorityRank(p) ==
    CASE p = "low" -> 1 [] p = "medium" -> 2 [] p = "high" -> 3 [] p = "critical" -> 4

\* the position asyncio.Queue.get() takes from a non-empty queue: the oldest entry
get_position_by_priority(queue) ==
    CHOOSE i \in 1..Len(queue) :
        \A j \in 1..Len(queue) :
            \/ PriorityRank(tasks[queue[j]].priority) < PriorityRank(tasks[queue[i]].priority)
            \/ /\ tasks[queue[j]].priority = tasks[queue[i]].priority
               /\ i <= j
get_position(queue) == 1

\* the queue without its entry at position i
RemoveAt_keeping(queue, i) == queue
RemoveAt(queue, i) == SubSeq(queue, 1, i - 1) \o SubSeq(queue, i + 1, Len(queue))

\* 'task = await asyncio.wait_for(self.task_queue.get(), timeout=1.0)' delivers
\* the head of the queue
worker_get(w) ==
    /\ wpc[w] = "get"
    /\ task_queue # <<>>
    /\ wtask' = [wtask EXCEPT ![w] = task_queue[get_position(task_queue)]]
    /\ task_queue' = RemoveAt(task_queue, get_position(task_queue))
    /\ wpc' = [wpc EXCEPT ![w] = "got"]
    /\ UNCHANGED <<tasks, next_id, is_running, is_initialized, agent_registry,
                   wagent, stopping, ret, executions, cancelled_at>>
    /\ UNCHANGED outside_vars

\* the get times out on an empty queue (asyncio.TimeoutError -> continue) and the
\* loop test ends the worker once is_running is False
worker_timeout(w) ==
    /\ wpc[w] = "get"
    /\ task_queue = <<>>
    /\ ~is_running
    /\ wpc' = [wpc EXCEPT ![w] = "done"]
    /\ UNCHANGED <<tasks, task_queue, next_id, is_running, is_initialized,
                   agent_registry, wtask, wagent, stopping, ret,
                   executions, cancelled_at>>
    /\ UNCHANGED outside_vars

\* the test 'task[status] == TaskStatus.CANCELLED' of the worker loop
is_cancelled_ignored(task) == FALSE
is_cancelled(task) == task.status = CANCELLED

\* the dependency test of _process_task: FAILED when a dependency is not met
dependencies_fail(task) ==
    task.dependencies # {} /\ ~check_dependencies(task.dependencies)

\* the task record after the 'if not agent' branch of _process_task, which returns
no_agent_retrying(task) ==
    IF task.retry_count < task.max_retries
    THEN [task EXCEPT !.retry_count = @ + 1, !.status = PENDING]
    ELSE [task EXCEPT !.status = FAILED, !.error = NoSuitableAgent(task)]
no_agent(task) == [task EXCEPT !.status = FAILED, !.error = NoSuitableAgent(task)]

\* _worker from the delivered task to the next suspension point: the CANCELLED
\* test, then _process_task up to 'await asyncio.wait_for(agent.execute(task), ...)'
worker_dispatch(w, performance) ==
    /\ wpc[w] = "got"
    /\ LET task_id == wtask[w]
           task == tasks[task_id]
           started == [task EXCEPT !.status = IN_PROGRESS,
                                   !.assigned_agent = WorkerName(w)]
           agent == find_agent_for_task(agent_registry, performance, started)
       IN  IF is_cancelled(task)
           THEN \* skipped: task_done(), continue
                /\ wpc' = [wpc EXCEPT ![w] = LoopTop]
                /\ wtask' = [wtask EXCEPT ![w] = NoSuchTask]
                /\ UNCHANGED <<tasks, wagent, executions>>
           ELSE IF dependencies_fail(started)
           THEN /\ tasks' = [tasks EXCEPT ![task_id] =
                                 [started EXCEPT !.status = FAILED,
                                                 !.error = DependenciesNotMet]]
                /\ wpc' = [wpc EXCEPT ![w] = LoopTop]
                /\ wtask' = [wtask EXCEPT ![w] = NoSuchTask]
                /\ UNCHANGED <<wagent, executions>>
           ELSE IF agent = None
           THEN /\ tasks' = [tasks EXCEPT ![task_id] = no_agent(started)]
                /\ wpc' = [wpc EXCEPT ![w] = LoopTop]
                /\ wtask' = [wtask EXCEPT ![w] = NoSuchTask]
                /\ UNCHANGED <<wagent, executions>>
           ELSE /\ tasks' = [tasks EXCEPT ![task_id] = started]
                /\ wpc' = [wpc EXCEPT ![w] = "exec"]
                /\ wagent' = [wagent EXCEPT ![w] = agent]
                /\ executions' = [executions EXCEPT ![task_id] = @ + 1]
                /\ UNCHANGED wtask
    /\ UNCHANGED <<task_queue, next_id, is_running, is_initialized, agent_registry,
                   stopping, ret, cancelled_at>>
    /\ UNCHANGED outside_vars

\* the retry test of the 'except Exception' branch of _process_task
should_retry_inclusive(task) == task.retry_count <= task.max_retries
should_retry(task) == task.retry_count < task.max_retries

\* the task record after 'result = await ...; task[result] = ...; COMPLETED'
completed_without_result(task, result) == [task EXCEPT !.status = COMPLETED]
completed_with(task, result) == [task EXCEPT !.result = result, !.status = COMPLETED]

\* the task record after the 'except asyncio.TimeoutError' branch
timed_out_retrying(task) ==
    IF task.retry_count < task.max_retries
    THEN [task EXCEPT !.retry_count = @ + 1, !.status = PENDING]
    ELSE [task EXCEPT !.status = FAILED, !.error = TimeoutError(task)]
timed_out(task) == [task EXCEPT !.status = FAILED, !.error = TimeoutError(task)]

\* the task record after the 'except Exception' branch, retry logic included
raised_keeping_error(task) ==
    IF task.retry_count < task.max_retries
    THEN [task EXCEPT !.retry_count = @ + 1, !.status = PENDING,
                      !.assigned_agent = None, !.error = AgentException]
    ELSE [task EXCEPT !.status = FAILED, !.error = AgentException]
raised_still_in_progress(task) ==
    IF task.retry_count < task.max_retries
    THEN [task EXCEPT !.retry_count = @ + 1, !.assigned_agent = None, !.error = None]
    ELSE [task EXCEPT !.status = FAILED, !.error = AgentException]
raised(task) ==
    IF should_retry(task)
    THEN [task EXCEPT !.retry_count = @ + 1, !.status = PENDING,
                      !.assigned_agent = None, !.error = None]
    ELSE [task EXCEPT !.status = FAILED, !.error = AgentException]

\* _process_task from the end of agent.execute to its return, then the worker
\* loop up to its next suspension point
process_task_end(w, outcome) ==
    /\ wpc[w] = "exec"
    /\ LET task_id == wtask[w]
           task == tasks[task_id]
       IN  CASE outcome = "success" ->
                 /\ tasks' = [tasks EXCEPT ![task_id] = completed_with(task, SuccessResult)]
                 /\ UNCHANGED task_queue
             [] outcome = "error_result" ->
                 /\ tasks' = [tasks EXCEPT ![task_id] = completed_with(task, ErrorResult)]
                 /\ UNCHANGED task_queue
             [] outcome = "timeout" ->
                 /\ tasks' = [tasks EXCEPT ![task_id] = timed_out(task)]
                 /\ UNCHANGED task_queue
             [] outcome = "raise" ->
                 /\ tasks' = [tasks EXCEPT ![task_id] = raised(task)]
                 /\ task_queue' = IF should_retry(task)
                                  THEN Append(task_queue, task_id) ELSE task_queue
    /\ wpc' = [wpc EXCEPT ![w] = LoopTop]
    /\ wtask' = [wtask EXCEPT ![w] = NoSuchTask]
    /\ wagent' = [wagent EXCEPT ![w] = None]
    /\ UNCHANGED <<next_id, is_running, is_initialized, agent_registry, stopping, ret,
                   executions, cancelled_at>>
    /\ UNCHANGED outside_vars

(* ---------------- the system ---------------- *)
\* the dependency lists a caller can pass: ids it has seen, or one it made up
DependencyChoices ==
    {d \in SUBSET ((DOMAIN tasks) \cup {NoSuchTask}) : Cardinality(d) <= MaxDeps}

Next ==
    \/ /\ next_id <= MaxTasks
       /\ \E ty \in TaskTypes, caps \in CapabilityChoices, pr \in PriorityChoices,
             to \in TimeoutChoices :
             \E deps \in DependencyChoices : create_task(ty, caps, pr, deps, to)
    \/ \E id \in TaskIds \cup {NoSuchTask} : cancel_task(id)
    \/ initialize
    \/ shutdown
    \/ stop_workers_return
    \/ \E w \in Workers : worker_get(w)
    \/ \E w \in Workers : worker_timeout(w)
    \/ \E w \in Workers : \E perf \in PerformanceChoices : worker_dispatch(w, perf)
    \/ \E w \in Workers, o \in Outcomes : process_task_end(w, o)

Spec == Init /\ [][Next]_vars

(* ======================= properties ======================= *)

\* one declared edge of the status machine, rc being the task's retry_count
DeclaredEdge(a, b, rc) ==
    \/ a = PENDING /\ b = IN_PROGRESS
    \/ a = IN_PROGRESS /\ b \in {COMPLETED, FAILED, CANCELLED}
    \/ a = FAILED /\ b = PENDING /\ rc < max_retries
    \/ a = PENDING /\ b = CANCELLED

\* a step of one handler assigns the status at most twice in a row (IN_PROGRESS
\* then FAILED at dispatch, FAILED then PENDING on retry): it moves along
\* declared edges when it is no move, one edge, or two consecutive edges
AlongDeclaredEdges(a, b, rc) ==
    \/ a = b
    \/ DeclaredEdge(a, b, rc)
    \/ \E m \in TaskStatus : DeclaredEdge(a, m, rc) /\ DeclaredEdge(m, b, rc)

\* C1: in every step of create_task, cancel_task and the workers, the status of
\* every task moves only along the declared edges PENDING -> IN_PROGRESS,
\* IN_PROGRESS -> COMPLETED | FAILED | CANCELLED, FAILED -> PENDING (while
\* retry_count < max_retries) and PENDING -> CANCELLED; no step leaves
\* COMPLETED or CANCELLED.
C1_StatusFollowsDeclaredEdges ==
    [][\A t \in DOMAIN tasks :
          AlongDeclaredEdges(tasks[t].status, tasks'[t].status, tasks[t].retry_count)]_vars

\* C2: every task has retry_count <= max_retries (3) in every reachable state.
C2_RetryCountBounded ==
    \A t \in DOMAIN tasks : tasks[t].retry_count <= 3 /\ tasks[t].max_retries = 3

\* C2 witness: a task went through every retry and failed for good
C2_Witness ==
    \E t \in DOMAIN tasks :
        tasks[t].retry_count = 3 /\ tasks[t].status = FAILED /\ executions[t] = 4

\* C3: when agent.execute raises and retry_count < max_retries, the step adds
\* one to retry_count, sets the status to PENDING, clears assigned_agent and
\* error and appends the task to the queue; when retry_count = max_retries the
\* task is FAILED and the queue is unchanged.  So a task that failed by an
\* exception has retry_count = max_retries and was executed max_retries + 1 times.
C3_RaiseRetriesThenFails ==
    [][/\ \A w \in Workers :
            process_task_end(w, "raise") =>
                LET t == wtask[w] IN
                IF tasks[t].retry_count < 3
                THEN /\ tasks'[t].retry_count = tasks[t].retry_count + 1
                     /\ tasks'[t].status = PENDING
                     /\ tasks'[t].assigned_agent = None
                     /\ tasks'[t].error = None
                     /\ task_queue' = Append(task_queue, t)
                ELSE /\ tasks'[t].retry_count = tasks[t].retry_count
                     /\ tasks'[t].status = FAILED
                     /\ task_queue' = task_queue
      /\ \A t \in DOMAIN tasks' :
            tasks'[t].status = FAILED /\ tasks'[t].error = AgentException =>
                tasks'[t].retry_count = 3 /\ executions'[t] = 4]_vars

\* C3 witness: a task whose agent raised every time has ended FAILED
C3_Witness ==
    \E t \in DOMAIN tasks :
        /\ tasks[t].status = FAILED /\ tasks[t].error = AgentException
        /\ executions[t] = 4 /\ ~InQueue(t)

\* C4: cancel_task(id) returns True exactly when the task exists with status
\* PENDING or IN_PROGRESS, and then the status is CANCELLED; otherwise it
\* returns False and leaves the task table and the queue as they were.
C4_CancelReturn ==
    [][\A id \in TaskIds \cup {NoSuchTask} :
          cancel_task(id) =>
              LET ok == id \in DOMAIN tasks /\ tasks[id].status \in {PENDING, IN_PROGRESS}
              IN  /\ ret' = ok
                  /\ task_queue' = task_queue
                  /\ ok => tasks'[id].status = CANCELLED
                  /\ ~ok => tasks' = tasks]_vars

\* C4 witness: a call returned True and left the task CANCELLED
C4_Witness ==
    /\ ret = TRUE
    /\ \E t \in DOMAIN tasks : tasks[t].status = CANCELLED /\ cancelled_at[t] # "never"

\* C5: once a cancel_task call on an id has returned True, every later
\* cancel_task call on that id returns False.
C5_SecondCancelReturnsFalse ==
    [][\A id \in TaskIds :
          cancelled_at[id] # "never" /\ cancel_task(id) => ret' = FALSE]_vars

\* C6: a task whose cancel_task returned True while it was PENDING and no
\* worker had dequeued it yet is never executed: no agent.execute is started
\* for it and its status is CANCELLED from then on, also after a worker has
\* dequeued it.
C6_CancelledBeforeDequeueIsSkipped ==
    \A t \in DOMAIN tasks :
        cancelled_at[t] = "fresh" =>
            /\ tasks[t].status = CANCELLED
            /\ executions[t] = 0
            /\ Executing(t) = {}
            /\ tasks[t].result = None

\* C6 witness: such a task has been dequeued and dropped by a worker
C6_Witness ==
    \E t \in DOMAIN tasks :
        /\ cancelled_at[t] = "fresh"
        /\ ~InQueue(t) /\ Holders(t) = {}
        /\ tasks[t].status = CANCELLED

\* C7: a task whose cancel_task returned True while its agent execution was
\* running is, once that execution has ended, still CANCELLED with an empty
\* result, and it is neither back in the queue nor held by a worker again.
C7_InFlightCancelIsTerminal ==
    \A t \in DOMAIN tasks :
        cancelled_at[t] = "running" /\ Executing(t) = {} =>
            /\ tasks[t].status = CANCELLED
            /\ tasks[t].result = None
            /\ ~InQueue(t)
            /\ Holders(t) = {}

C9_QuotedError(task) == "Task timeout after " \o ToString(task.timeout) \o "s"

\* C9 as stated: on a timeout the task becomes FAILED with the error
\* "Task timeout after {timeout}s", retry_count is not incremented and the task
\* is not re-enqueued.
C9_TimeoutAsStated ==
    [][\A w \in Workers :
          process_task_end(w, "timeout") =>
              LET t == wtask[w] IN
              /\ tasks'[t].status = FAILED
              /\ tasks'[t].error = C9_QuotedError(tasks[t])
              /\ tasks'[t].retry_count = tasks[t].retry_count
              /\ task_queue' = task_queue]_vars

\* the error text of a timeout, written out for the default timeout
C9_SecondsError(task) == "Task timeout after " \o ToString(task.timeout) \o " seconds"

\* C9 amended: on a timeout the task becomes FAILED with the error
\* "Task timeout after {timeout} seconds", retry_count is not incremented and
\* the task is not re-enqueued, also when retry_count < max_retries; a task that
\* is FAILED with that error is never changed again.
C9_TimeoutIsTerminal ==
    [][/\ \A w \in Workers :
            process_task_end(w, "timeout") =>
                LET t == wtask[w] IN
                /\ tasks'[t].status = FAILED
                /\ tasks'[t].error = C9_SecondsError(tasks[t])
                /\ tasks'[t].retry_count = tasks[t].retry_count
                /\ task_queue' = task_queue
                /\ ~InQueue(t)
      /\ \A t \in DOMAIN tasks :
            tasks[t].status = FAILED /\ tasks[t].error = C9_SecondsError(tasks[t]) =>
                tasks'[t] = tasks[t] /\ executions'[t] = executions[t]]_vars

\* C9 witness: a task timed out with retries left, after an earlier retry
C9_Witness ==
    \E t \in DOMAIN tasks :
        /\ tasks[t].status = FAILED
        /\ tasks[t].error = "Task timeout after 300 seconds"
        /\ tasks[t].retry_count = 1
        /\ ~InQueue(t)

\* C10: a task whose agent.execute returned an error result is never COMPLETED
\* with that error payload as its result.
C10_ErrorResultNotCompleted ==
    \A t \in DOMAIN tasks :
        ~(tasks[t].status = COMPLETED /\ tasks[t].result = ErrorResult)

\* C11 as stated: when no registered agent scores above 0 the task fails with
\* "No suitable agent found for task type: {type}" without any agent being
\* invoked, and the failure is retried: while retry_count < max_retries the
\* retry_count is incremented and the task is re-enqueued as PENDING.
NoAgentScores(task) ==
    \A perf \in PerformanceChoices : find_agent_for_task(agent_registry, perf, task) = None
\* worker w dispatches, in this step, a live task whose dependencies are met
\* and for which no agent scores above 0
NoAgentDispatch(w) ==
    /\ wpc[w] = "got" /\ wpc'[w] # "got"
    /\ ~is_cancelled(tasks[wtask[w]])
    /\ ~dependencies_fail(tasks[wtask[w]])
    /\ NoAgentScores(tasks[wtask[w]])
C11_NoAgentFailureIsRetried ==
    [][\A w \in Workers : NoAgentDispatch(w) =>
          LET t == wtask[w] IN
          /\ executions'[t] = executions[t]
          /\ IF tasks[t].retry_count < max_retries
             THEN /\ tasks'[t].retry_count = tasks[t].retry_count + 1
                  /\ tasks'[t].status = PENDING
                  /\ t \in SeqToSet(task_queue')
             ELSE /\ tasks'[t].status = FAILED
                  /\ tasks'[t].error = "No suitable agent found for task type: " \o tasks[t].type]_vars

\* C11 amended: the failure is final at once. The task is FAILED with that
\* error text, no agent is invoked, retry_count keeps its value and the task
\* is not put back on the queue.
C11_NoAgentFailureIsTerminal ==
    [][\A w \in Workers : NoAgentDispatch(w) =>
          LET t == wtask[w] IN
          /\ executions'[t] = executions[t]
          /\ wagent'[w] = None
          /\ tasks'[t].status = FAILED
          /\ tasks'[t].error = "No suitable agent found for task type: " \o tasks[t].type
          /\ tasks'[t].retry_count = tasks[t].retry_count
          /\ t \notin SeqToSet(task_queue')]_vars

\* a task that failed for want of an agent, never executed and never retried
C11_Witness ==
    \E t \in DOMAIN tasks :
        /\ tasks[t].status = FAILED
        /\ tasks[t].error = "No suitable agent found for task type: x"
        /\ tasks[t].retry_count = 0
        /\ executions[t] = 0
        /\ ~InQueue(t)

(* ======================= agent selection on its own ======================= *)
\* _find_agent_for_task is a function of the registry, of the reports the
\* agents give and of the task. SelectSpec draws these and applies it once.

\* registries: every order of every set of distinct agents (a dict has no
\* duplicate keys)
SelectRegistries ==
    {<<>>} \cup {<<a>> : a \in AgentIds}
           \cup {<<p[1], p[2]>> : p \in {q \in AgentIds \X AgentIds : q[1] # q[2]}}
\* payload['required_capabilities']: nothing, what a1 offers, what nobody offers
SelectRequired == {{}, {"x"}, {"y"}}
\* the arguments of one call
FindArgs ==
    [registry : SelectRegistries, performance : PerformanceChoices,
     required_capabilities : SelectRequired]

SelectInit ==
    /\ CoreInit
    /\ find_args \in FindArgs
    /\ find_ret = NotCalled
    /\ NoStatusCall
    /\ NoProject
    /\ NoWorkflow
    /\ NoCleanup

\* one call of TaskManager._find_agent_for_task
find_agent_for_task_call ==
    /\ find_ret = NotCalled
    /\ find_ret' = find_agent_for_task(
                       find_args.registry, find_args.performance,
                       [required_capabilities |-> find_args.required_capabilities])
    /\ UNCHANGED <<find_args, status_ret, project_vars, core_vars,
                   workflow_vars, cleanup_vars>>

SelectNext == find_agent_for_task_call

SelectSpec == SelectInit /\ [][SelectNext]_vars

\* the score of agent a for the call under study
FindScore(a) ==
    calculate_agent_suitability(a, find_args.performance[a],
                                find_args.required_capabilities)

\* C12: the suitability score is 0.5 (only when the agent's capabilities are a
\* superset of the required ones) + 0.3 * successful/total for the task type
\* (0 without history) + 0.2; a registry of one agent whose capabilities are
\* exactly the required one, without history, gives 0.7 and that agent is selected.
C12_ScoreFormula ==
    /\ \A a \in AgentIds :
          LET h == find_args.performance[a]
              superset == IF find_args.required_capabilities \subseteq capabilities(a)
                          THEN 1 ELSE 0
              score == FindScore(a)
          IN  IF h.total_tasks = 0
              THEN score[1] * 10 = score[2] * (5 * superset + 2)
              ELSE score[1] * 10 * h.total_tasks =
                   score[2] * (5 * superset * h.total_tasks + 3 * h.successful_tasks
                               + 2 * h.total_tasks)
    /\ ( /\ find_args.registry = <<"a1">>
         /\ find_args.required_capabilities = capabilities("a1")
         /\ find_args.performance["a1"].total_tasks = 0 )
       => /\ FindScore("a1")[1] * 10 = 7 * FindScore("a1")[2]
          /\ find_ret \in {NotCalled, "a1"}

\* the single agent without history has been selected
C12_Witness ==
    /\ find_args.registry = <<"a1">>
    /\ find_args.required_capabilities = {"x"}
    /\ find_args.performance["a1"].total_tasks = 0
    /\ find_ret = "a1"

\* C13: the agent returned has a score at least that of every other registered
\* agent, and among equal best scores it is the first in registry order.
C13_BestAgentFirstOnTies ==
    (find_ret # NotCalled /\ find_args.registry # <<>>) =>
        \E i \in 1..Len(find_args.registry) :
            /\ find_ret = find_args.registry[i]
            /\ \A j \in 1..Len(find_args.registry) :
                  LET sj == FindScore(find_args.registry[j])
                      si == FindScore(find_args.registry[i])
                  IN  /\ sj[1] * si[2] <= si[1] * sj[2]
                      /\ j < i => sj[1] * si[2] < si[1] * sj[2]

\* two agents tie for the best score and the first of them was returned
C13_Witness ==
    /\ Len(find_args.registry) = 2
    /\ LET s1 == FindScore(find_args.registry[1])
           s2 == FindScore(find_args.registry[2])
       IN  s1[1] * s2[2] = s2[1] * s1[2]
    /\ find_ret = find_args.registry[1]

\* agent a covers the required capabilities of the call under study
Covers(a) == find_args.required_capabilities \subseteq capabilities(a)
\* the agents of the registry of the call under study
Registered == SeqToSet(find_args.registry)

\* C28: when some registered agent covers the required capabilities, the agent
\* returned covers them, whatever the success histories of the agents are: an
\* agent that covers them has a strictly higher score than one that does not.
C28_CoveringAgentWins ==
    /\ \A a, b \in AgentIds :
          (Covers(a) /\ ~Covers(b)) =>
              FindScore(a)[1] * FindScore(b)[2] > FindScore(b)[1] * FindScore(a)[2]
    /\ (find_ret # NotCalled /\ \E a \in Registered : Covers(a)) =>
          find_ret \in Registered /\ Covers(find_ret)

\* the covering agent, last in the registry and with only failures behind it,
\* was preferred to an agent with only successes that does not cover
C28_Witness ==
    /\ find_args.registry = <<"a2", "a1">>
    /\ find_args.required_capabilities = {"x"}
    /\ find_args.performance["a1"] = [total_tasks |-> 1, successful_tasks |-> 0]
    /\ find_args.performance["a2"] = [total_tasks |-> 1, successful_tasks |-> 1]
    /\ find_ret = "a1"

\* C29: with a non-empty registry _find_agent_for_task returns a registered
\* agent for every task, also when no registered agent covers the required
\* capabilities; it returns None only for an empty registry.
C29_NonEmptyRegistryAlwaysSelects ==
    find_ret # NotCalled =>
        /\ find_args.registry # <<>> => find_ret \in Registered
        /\ find_ret = None <=> find_args.registry = <<>>

\* an agent was returned although no registered agent covers the requirement
C29_Witness ==
    /\ find_args.registry # <<>>
    /\ \A a \in Registered : ~Covers(a)
    /\ find_ret \in Registered

\* C14: in every reachable state a task's stored result is non-empty exactly
\* when its status is COMPLETED.
C14_ResultIffCompleted ==
    \A t \in DOMAIN tasks :
        (tasks[t].result # None) <=> (tasks[t].status = COMPLETED)

\* a task was executed and is COMPLETED with the agent's result stored
C14_Witness ==
    \E t \in DOMAIN tasks :
        /\ tasks[t].status = COMPLETED
        /\ tasks[t].result = SuccessResult
        /\ executions[t] > 0

(* ======================= progress of a running pool ======================= *)
\* A pool that is started and never shut down, one registered agent that
\* covers what the tasks require and whose execute always returns in time,
\* tasks without dependencies. Callers may still cancel.

\* number of create_task calls explored by LiveSpec
LiveTasks == 2
LiveTaskIds == 1..LiveTasks
\* the registry of the one covering agent
LiveRegistry == <<"a1">>

LiveInit == StartState(LiveTaskIds, LiveRegistry) /\ OutsideInit

LiveNext ==
    \/ /\ next_id <= LiveTasks
       /\ \E ty \in TaskTypes, caps \in CapabilityChoices, pr \in PriorityChoices,
             to \in TimeoutChoices : create_task(ty, caps, pr, {}, to)
    \/ \E id \in LiveTaskIds : cancel_task(id)
    \/ initialize
    \/ \E w \in Workers : worker_get(w)
    \/ \E w \in Workers : \E perf \in PerformanceChoices : worker_dispatch(w, perf)
    \/ \E w \in Workers : process_task_end(w, "success")

\* The event loop runs every worker coroutine that is ready: a worker whose
\* get can return, whose task was delivered, or whose agent has returned takes
\* its step. start_workers is called once the executor is constructed.
LiveFairness ==
    /\ WF_vars(initialize)
    /\ \A w \in Workers :
          /\ WF_vars(worker_get(w))
          /\ WF_vars(\E perf \in PerformanceChoices : worker_dispatch(w, perf))
          /\ WF_vars(process_task_end(w, "success"))

LiveSpec == LiveInit /\ [][LiveNext]_vars /\ LiveFairness

\* C15: with a running pool (even of one worker), a task without dependencies
\* whose requirement the registered agent covers, whose execution succeeds
\* within the timeout and which is not cancelled is eventually COMPLETED with
\* that execution's result.
C15_SubmittedTaskCompletes ==
    \A t \in LiveTaskIds :
        [](t \in DOMAIN tasks =>
             <>(\/ cancelled_at[t] # "never"
                \/ /\ t \in DOMAIN tasks
                   /\ tasks[t].status = COMPLETED
                   /\ tasks[t].result = SuccessResult))

\* every submitted task was completed by the pool without any cancel
C15_Witness ==
    /\ is_running
    /\ DOMAIN tasks = LiveTaskIds
    /\ \A t \in LiveTaskIds :
          /\ cancelled_at[t] = "never"
          /\ tasks[t].status = COMPLETED
          /\ tasks[t].result = SuccessResult

(* ======================= queue order ======================= *)
\* Tasks of different priorities, executions that succeed or raise (and are
\* retried), a registry whose agent a1 covers the tasks.

\* number of create_task calls explored by FifoSpec
FifoTasks == 2
FifoTaskIds == 1..FifoTasks
FifoPriorities == {"low", "critical"}
FifoOutcomes == {"success", "raise"}

FifoInit == StartState(FifoTaskIds, <<"a2", "a1">>) /\ OutsideInit

FifoNext ==
    \/ /\ next_id <= FifoTasks
       /\ \E ty \in TaskTypes, caps \in CapabilityChoices, pr \in FifoPriorities,
             to \in TimeoutChoices : create_task(ty, caps, pr, {}, to)
    \/ initialize
    \/ \E w \in Workers : worker_get(w)
    \/ \E w \in Workers : \E perf \in PerformanceChoices : worker_dispatch(w, perf)
    \/ \E w \in Workers, o \in FifoOutcomes : process_task_end(w, o)

FifoSpec == FifoInit /\ [][FifoNext]_vars

\* never retried: the task's only admission to the queue was by create_task
NeverRetried(t) == t \in DOMAIN tasks /\ tasks[t].retry_count = 0

\* C16: tasks leave the queue in the order they were admitted, a retried task
\* being re-admitted at the tail, and priority never changes that order: of two
\* never retried tasks the one created first is dequeued first, even when the
\* other has the higher priority.
C16_FifoIgnoresPriority ==
    [][ /\ task_queue' # task_queue =>
             \/ task_queue # <<>> /\ task_queue' = Tail(task_queue)
             \/ \E t \in DOMAIN tasks' : task_queue' = Append(task_queue, t)
        /\ \A t \in DOMAIN tasks :
             (tasks'[t].retry_count > tasks[t].retry_count) =>
                 task_queue' = Append(task_queue, t)
        /\ \A a, b \in FifoTaskIds :
             (a < b /\ NeverRetried(a)' /\ NeverRetried(b)' /\ b \notin SeqToSet(task_queue'))
                 => a \notin SeqToSet(task_queue') ]_vars

\* the task created first, of low priority, has been dequeued while the
\* critical task created after it still waits
C16_Witness ==
    \E a, b \in DOMAIN tasks :
        /\ a < b
        /\ tasks[a].priority = "low" /\ tasks[b].priority = "critical"
        /\ tasks[a].retry_count = 0 /\ tasks[b].retry_count = 0
        /\ ~InQueue(a) /\ InQueue(b)

(* ======================= status queries ======================= *)
\* Callers that create, cancel and query tasks while a started pool works; the
\* pool is not shut down.
ObserveNext ==
    \/ /\ next_id <= MaxTasks
       /\ \E ty \in TaskTypes, caps \in CapabilityChoices, pr \in PriorityChoices,
             to \in TimeoutChoices :
             \E deps \in DependencyChoices : create_task(ty, caps, pr, deps, to)
    \/ \E id \in TaskIds \cup {NoSuchTask} : cancel_task(id)
    \/ \E id \in TaskIds \cup {NoSuchTask} : get_task_status(id)
    \/ initialize
    \/ \E w \in Workers : worker_get(w)
    \/ \E w \in Workers : \E perf \in PerformanceChoices : worker_dispatch(w, perf)
    \/ \E w \in Workers, o \in Outcomes : process_task_end(w, o)

ObserveInit == StartState(TaskIds, <<"a2", "a1">>) /\ OutsideInit

ObserveSpec == ObserveInit /\ [][ObserveNext]_vars

\* C17: get_task_status changes neither the task table nor the queue, returns
\* None for an unknown id, and on a COMPLETED task returns the snapshot that the
\* call before it returned.
C17_StatusQueryIsPure ==
    [][\A id \in TaskIds \cup {NoSuchTask} :
          get_task_status(id) =>
              /\ UNCHANGED <<tasks, task_queue>>
              /\ id \notin DOMAIN tasks => status_ret' = {}
              /\ id \in DOMAIN tasks => status_ret' = {snapshot(id)}
              /\ \A before \in status_ret :
                    (before.task_id = id /\ before.status = COMPLETED)
                        => status_ret' = status_ret]_vars

\* a query has returned the snapshot of a COMPLETED task
C17_Witness ==
    \E s \in status_ret :
        /\ s.status = COMPLETED
        /\ s.result = SuccessResult
        /\ s.task_id \in DOMAIN tasks
        /\ tasks[s.task_id].status = COMPLETED

(* ======================= ComplexTaskBuilder ======================= *)
\* src/tasks/complex_tasks.py: a project is expanded into step tasks of the
\* TaskManager and watched by a polling monitor. create_multi_agent_project
\* never suspends (create_task does not), so it is one step; the monitor
\* suspends in asyncio.sleep(5) only, so one poll is one step.

\* _create_software_development_tasks: step, type, payload['required_capabilities'],
\* dependencies (as step numbers, for the keys 'step_n') and priority of each step
SoftwareDevelopmentTasks ==
    << [step |-> 1, type |-> "analyze_requirements",
        required_capabilities |-> {"requirements_analysis", "domain_knowledge"},
        dependencies |-> {}, priority |-> "high"],
       [step |-> 2, type |-> "design_system",
        required_capabilities |-> {"system_design", "architecture_patterns"},
        dependencies |-> {1}, priority |-> "high"],
       [step |-> 3, type |-> "design_database",
        required_capabilities |-> {"database_design", "data_modeling"},
        dependencies |-> {2}, priority |-> "medium"],
       [step |-> 4, type |-> "design_apis",
        required_capabilities |-> {"api_design", "rest_principles"},
        dependencies |-> {2}, priority |-> "medium"],
       [step |-> 5, type |-> "generate_code",
        required_capabilities |-> {"code_generation", "backend_development"},
        dependencies |-> {2, 3, 4}, priority |-> "high"],
       [step |-> 6, type |-> "generate_code",
        required_capabilities |-> {"code_generation", "frontend_development"},
        dependencies |-> {2, 4}, priority |-> "medium"],
       [step |-> 7, type |-> "test_integration",
        required_capabilities |-> {"testing", "integration"},
        dependencies |-> {5, 6}, priority |-> "medium"],
       [step |-> 8, type |-> "document_code",
        required_capabilities |-> {"documentation", "technical_writing"},
        dependencies |-> {5, 6}, priority |-> "low"] >>

\* ComplexTaskBuilder._parse_priority
parse_priority(priority_str) ==
    IF priority_str \in TaskPriority THEN priority_str ELSE "medium"

\* create_multi_agent_project with _execute_complex_task: the project record,
\* one task per step in template order, then the monitor is started
create_multi_agent_project(steps) ==
    /\ complex_task.status = "none"
    /\ LET n == Len(steps)
           first == next_id
           \* task_ids[f"step_{step['step']}"] once the loop has passed step k
           task_ids == [k \in 1..n |-> first + steps[k].step - 1]
           step_task(k) ==
               new_task(steps[k].type, steps[k].required_capabilities,
                        parse_priority(steps[k].priority),
                        {task_ids[dep] : dep \in {d \in steps[k].dependencies : d < k}},
                        DefaultTimeout)
       IN  /\ tasks' = [t \in DOMAIN tasks \cup {task_ids[k] : k \in 1..n} |->
                           IF t >= first THEN step_task(t - first + 1) ELSE tasks[t]]
           /\ task_queue' = task_queue \o task_ids
           /\ next_id' = next_id + n
           /\ complex_task' = [status |-> "executing", current_step |-> 1,
                               total_steps |-> n, task_ids |-> task_ids,
                               results |-> <<>>, progress |-> <<>>]
    /\ mpc' = "sleep"
    /\ UNCHANGED <<is_running, is_initialized, agent_registry, wpc, wtask, wagent,
                   stopping, ret, executions, cancelled_at, find_vars, status_ret,
                   workflow_vars, cleanup_vars>>

\* the steps whose task get_task_status reports with the given status
steps_with_status_cancelled_as_failed(status) ==
    {k \in DOMAIN complex_task.task_ids :
        /\ complex_task.task_ids[k] \in Table
        /\ \/ tasks[complex_task.task_ids[k]].status = status
           \/ status = FAILED /\ tasks[complex_task.task_ids[k]].status = CANCELLED}
steps_with_status_or_failed(status) ==
    {k \in DOMAIN complex_task.task_ids :
        /\ complex_task.task_ids[k] \in Table
        /\ tasks[complex_task.task_ids[k]].status \in {status, FAILED}}
steps_with_status(status) ==
    {k \in DOMAIN complex_task.task_ids :
        /\ complex_task.task_ids[k] \in Table
        /\ tasks[complex_task.task_ids[k]].status = status}

\* 'Update overall status' of _monitor_complex_task
poll_status_never_pausing(status, completed_steps, failed_steps, total_steps) ==
    IF completed_steps = total_steps THEN "completed" ELSE status
poll_status_resuming(status, completed_steps, failed_steps, total_steps) ==
    IF completed_steps = total_steps THEN "completed"
    ELSE IF failed_steps > 0 THEN (IF status = "paused" THEN "executing" ELSE "paused")
    ELSE status
poll_status(status, completed_steps, failed_steps, total_steps) ==
    IF completed_steps = total_steps THEN "completed"
    ELSE IF failed_steps > 0 /\ status # "paused" THEN "paused"
    ELSE status

\* (completed_steps / total_steps) * 100, kept as the fraction <<numerator, denominator>>
progress_of(completed_steps, total_steps) == <<completed_steps * 100, total_steps>>

\* one pass of the while loop of _monitor_complex_task, from the return of
\* asyncio.sleep(5) to the next sleep or to the break
monitor_poll ==
    /\ mpc = "sleep"
    /\ complex_task.status \in {"executing", "paused"}
    /\ LET completed == steps_with_status(COMPLETED)
           completed_steps == Cardinality(completed)
           failed_steps == Cardinality(steps_with_status(FAILED))
           total_steps == complex_task.total_steps
           results == [k \in completed |-> tasks[complex_task.task_ids[k]].result]
           all_done == completed_steps = total_steps
       IN  /\ complex_task' =
                 [complex_task EXCEPT
                     !.current_step = completed_steps + 1,
                     !.results = results,
                     !.status = poll_status(@, completed_steps, failed_steps, total_steps),
                     !.progress = IF all_done THEN @
                                  ELSE progress_of(completed_steps, total_steps)]
           /\ mpc' = IF all_done THEN "done" ELSE "sleep"
    /\ UNCHANGED <<core_vars, find_vars, status_ret, workflow_vars, cleanup_vars>>

(* ---------------- the software_development project with a failing step 5 ---------------- *)
\* The 8-step project, every agent succeeding except on step 5, whose execute
\* raises or times out every time.
EightTaskIds == 1..Len(SoftwareDevelopmentTasks)
FailingStep == 5
FailingOutcomes == {"raise", "timeout"}

\* what agent.execute does for the task a worker holds
StepOutcomes(task_id) ==
    IF FailingStep \in DOMAIN complex_task.task_ids
       /\ task_id = complex_task.task_ids[FailingStep]
    THEN FailingOutcomes ELSE {"success"}

EightStepInit == StartState(EightTaskIds, <<"a2", "a1">>) /\ OutsideInit

EightStepNext ==
    \/ create_multi_agent_project(SoftwareDevelopmentTasks)
    \/ initialize
    \/ monitor_poll
    \/ \E w \in Workers : worker_get(w)
    \/ \E w \in Workers : \E perf \in PerformanceChoices : worker_dispatch(w, perf)
    \/ \E w \in Workers : \E o \in StepOutcomes(wtask[w]) : process_task_end(w, o)

EightStepSpec == EightStepInit /\ [][EightStepNext]_vars

\* every step task has reached a status it keeps
AllStepsFinal ==
    /\ complex_task.status # "none"
    /\ \A k \in DOMAIN complex_task.task_ids :
          LET t == complex_task.task_ids[k]
          IN  tasks[t].status \in {COMPLETED, FAILED} /\ ~InQueue(t) /\ Holders(t) = {}

ProjectSteps == 2
ProjectTaskIds == 1..ProjectSteps
ShortProject == SubSeq(SoftwareDevelopmentTasks, 1, ProjectSteps)

ProjectInit == StartState(ProjectTaskIds, <<"a2", "a1">>) /\ OutsideInit

ProjectNext ==
    \/ create_multi_agent_project(ShortProject)
    \/ initialize
    \/ monitor_poll
    \/ \E w \in Workers : worker_get(w)
    \/ \E w \in Workers : \E perf \in PerformanceChoices : worker_dispatch(w, perf)
    \/ \E w \in Workers, o \in Outcomes : process_task_end(w, o)

ProjectSpec == ProjectInit /\ [][ProjectNext]_vars

\* C19: the project becomes PAUSED at the first monitor poll that sees a FAILED
\* step, and once PAUSED it is never set back to EXECUTING nor to COMPLETED.
C19_PausedIsSticky ==
    [][ /\ (monitor_poll /\ steps_with_status(FAILED) # {})
              => complex_task'.status = "paused"
        /\ complex_task.status = "paused" => complex_task'.status = "paused" ]_vars

\* the monitor has paused the project over a FAILED step, holds the result of a
\* completed one, and goes on polling
C19_Witness ==
    /\ complex_task.status = "paused"
    /\ steps_with_status(FAILED) # {}
    /\ DOMAIN complex_task.results # {}
    /\ mpc = "sleep"

\* C20: after every monitor poll the stored progress is the number of COMPLETED
\* steps counted in that poll over the total number of steps, times 100, the
\* poll in which the status becomes COMPLETED included.
C20_ProgressAfterEveryPoll ==
    [][monitor_poll =>
          complex_task'.progress =
              progress_of(Cardinality(steps_with_status(COMPLETED)),
                          complex_task.total_steps)]_vars

\* the number of steps of the project whose task is COMPLETED now
CompletedNow ==
    Cardinality({k \in DOMAIN complex_task.task_ids :
                    tasks[complex_task.task_ids[k]].status = COMPLETED})

\* C22 as stated: while the project is EXECUTING, current_step equals the
\* number of its steps whose task is COMPLETED, plus one, in every reachable
\* state, also between two monitor polls.
C22_CurrentStepTracksCompleted ==
    complex_task.status = "executing" => complex_task.current_step = CompletedNow + 1

\* C22 amended: current_step is 1 when the project is created, every monitor
\* poll sets it to the number of steps whose task is COMPLETED at that poll,
\* plus one, and nothing else writes it: between two polls it keeps the value
\* of the last poll while steps go on completing.
C22_CurrentStepSetByPolls ==
    [][ /\ create_multi_agent_project(ShortProject) => complex_task'.current_step = 1
        /\ monitor_poll => complex_task'.current_step = CompletedNow + 1
        /\ (complex_task.status # "none"
            /\ complex_task'.current_step # complex_task.current_step) => monitor_poll
      ]_vars

\* a poll has set current_step to 2 and the second step has completed since:
\* the project is EXECUTING with every step COMPLETED and current_step still 2
C22_Witness ==
    /\ complex_task.status = "executing"
    /\ complex_task.current_step = 2
    /\ CompletedNow = 2
    /\ mpc = "sleep"

\* C25: once stop_workers has been called (is_running is False) no worker
\* takes a new task from the queue: each worker only finishes the task it is
\* dispatching and exits; and once stop_workers has returned every worker has
\* exited, no task is IN_PROGRESS, and the workers leave the tasks still in
\* the queue as they are.
C25_StopLetsWorkersOnlyFinish ==
    [][ /\ ~is_running =>
              \A w \in Workers : ~(wpc[w] = "get" /\ wpc'[w] = "got")
        /\ (~is_running' /\ ~stopping') =>
              /\ \A w \in Workers : wpc'[w] = "done"
              /\ \A t \in DOMAIN tasks' : tasks'[t].status # IN_PROGRESS
              /\ \A t \in SeqToSet(task_queue) :
                    t \in SeqToSet(task_queue')
                    /\ tasks'[t].status \in {tasks[t].status, CANCELLED}
      ]_vars

\* the number of times task t occurs in the queue
Occurrences(t) == Cardinality({i \in 1..Len(task_queue) : task_queue[i] = t})

Delivered(t) == {w \in DOMAIN wpc : wpc[w] = "got" /\ wtask[w] = t}

MaxAge == 2
\* the max_age_hours arguments explored
MaxAgeChoices == {0, 1}

\* (now - created).total_seconds() / 3600 of a task
AgeOf(t) == IF t \in DOMAIN age THEN age[t] ELSE 0

\* one hour passes
advance_clock ==
    /\ \E t \in DOMAIN tasks : AgeOf(t) < MaxAge
    /\ age' = [t \in DOMAIN tasks |-> IF AgeOf(t) < MaxAge THEN AgeOf(t) + 1 ELSE MaxAge]
    /\ UNCHANGED <<core_vars, find_vars, status_ret, project_vars, workflow_vars, removed>>

\* the statuses cleanup_old_tasks sweeps
CleanupStatuses == {COMPLETED, FAILED, CANCELLED}

\* '(now - created).total_seconds() > max_age_hours * 3600'
older_than_or_as_old(hours, max_age_hours) == hours >= max_age_hours
older_than(hours, max_age_hours) == hours > max_age_hours

\* TaskManager.cleanup_old_tasks
cleanup_old_tasks(max_age_hours) ==
    /\ LET tasks_to_remove ==
               {task_id \in Table :
                   /\ tasks[task_id].status \in CleanupStatuses
                   /\ older_than(AgeOf(task_id), max_age_hours)}
       IN  removed' = removed \cup tasks_to_remove
    /\ UNCHANGED <<core_vars, find_vars, status_ret, project_vars, workflow_vars, age>>

CleanupInit == StartState(TaskIds, <<"a2", "a1">>) /\ OutsideInit

\* what agent.execute does for the tasks that are swept
CleanupOutcomes == {"success", "error_result", "timeout"}

CleanupNext ==
    \/ /\ next_id <= MaxTasks
       /\ \E ty \in TaskTypes, caps \in CapabilityChoices, pr \in PriorityChoices,
             to \in TimeoutChoices : create_task(ty, caps, pr, {}, to)
    \/ \E id \in TaskIds : cancel_task(id)
    \/ initialize
    \/ advance_clock
    \/ \E max_age_hours \in MaxAgeChoices : cleanup_old_tasks(max_age_hours)
    \/ \E w \in Workers : worker_get(w)
    \/ \E w \in Workers : \E perf \in PerformanceChoices : worker_dispatch(w, perf)
    \/ \E w \in Workers, o \in CleanupOutcomes : process_task_end(w, o)

CleanupSpec == CleanupInit /\ [][CleanupNext]_vars

\* C26: cleanup_old_tasks(max_age_hours) deletes from the task table exactly
\* the tasks that are COMPLETED, FAILED or CANCELLED and were created more than
\* max_age_hours ago, and changes nothing else; a PENDING or IN_PROGRESS task
\* is never deleted; and no other operation deletes a task from the table.
C26_CleanupRemovesOldFinal ==
    [][ /\ \A h \in MaxAgeChoices :
              cleanup_old_tasks(h) =>
                  /\ Table \ Table' =
                        {t \in Table : /\ tasks[t].status \in {COMPLETED, FAILED, CANCELLED}
                                       /\ AgeOf(t) > h}
                  /\ Table' \subseteq Table
                  /\ tasks' = tasks /\ task_queue' = task_queue
        /\ \A t \in Table \ Table' : tasks[t].status \notin {PENDING, IN_PROGRESS}
        /\ Table \ Table' # {} => \E h \in MaxAgeChoices : cleanup_old_tasks(h)
      ]_vars

\* a sweep has deleted a task that a worker had completed more than an hour
\* after its creation
C26_Witness ==
    \E t \in removed :
        /\ t \notin Table
        /\ tasks[t].status = COMPLETED
        /\ executions[t] > 0
        /\ AgeOf(t) = MaxAge

(* ======================= a pool of several workers ======================= *)
\* Several workers share the queue; executions succeed or raise (and are
\* retried), callers cancel at any time.

\* size of the pool explored by PoolSpec
PoolWorkers == 2
PoolWorkerIds == 1..PoolWorkers
\* number of create_task calls explored by PoolSpec
PoolTasks == 1
PoolTaskIds == 1..PoolTasks
PoolOutcomes == {"success", "raise"}

PoolInit == StartPool(PoolTaskIds, <<"a2", "a1">>, PoolWorkerIds) /\ OutsideInit

PoolNext ==
    \/ /\ next_id <= PoolTasks
       /\ \E ty \in TaskTypes, caps \in CapabilityChoices, pr \in PriorityChoices,
             to \in TimeoutChoices : create_task(ty, caps, pr, {}, to)
    \/ \E id \in PoolTaskIds : cancel_task(id)
    \/ initialize
    \/ \E w \in PoolWorkerIds : worker_get(w)
    \/ \E w \in PoolWorkerIds : \E perf \in PerformanceChoices : worker_dispatch(w, perf)
    \/ \E w \in PoolWorkerIds, o \in PoolOutcomes : process_task_end(w, o)

PoolSpec == PoolInit /\ [][PoolNext]_vars

\* C23: no task is held by two workers at once, between a worker's dequeue and
\* the end of its dispatch; and a step that changes a task record is a step of
\* the one worker holding the task, or a cancel_task that sets it CANCELLED.
C23_SingleHolder ==
    [][\A t \in DOMAIN tasks :
          /\ Cardinality(Holders(t)) <= 1
          /\ Cardinality(Holders(t)') <= 1
          /\ tasks'[t] # tasks[t] =>
                \/ \E w \in Holders(t) : wpc'[w] # wpc[w]
                \/ tasks' = [tasks EXCEPT ![t].status = CANCELLED]]_vars

\* a task that was executed, raised and went back to the queue is now held by
\* a worker while another worker of the pool waits on the queue
C23_Witness ==
    \E t \in DOMAIN tasks :
        /\ tasks[t].retry_count > 0
        /\ Cardinality(Holders(t)) = 1
        /\ \E w \in DOMAIN wpc : w \notin Holders(t) /\ wpc[w] = "get"

(* ---------------- projects whose steps are cancelled ---------------- *)
\* The short project with agents that succeed, and callers that cancel step
\* tasks at any time.
CancelledStepInit == StartState(ProjectTaskIds, <<"a2", "a1">>) /\ OutsideInit

CancelledStepNext ==
    \/ create_multi_agent_project(ShortProject)
    \/ \E id \in ProjectTaskIds : cancel_task(id)
    \/ initialize
    \/ monitor_poll
    \/ \E w \in Workers : worker_get(w)
    \/ \E w \in Workers : \E perf \in PerformanceChoices : worker_dispatch(w, perf)
    \/ \E w \in Workers : process_task_end(w, "success")

CancelledStepSpec == CancelledStepInit /\ [][CancelledStepNext]_vars

\* the step tasks of the project with the given status that are out of the
\* queue and out of the workers' hands
EndedWith(status) ==
    {k \in DOMAIN complex_task.task_ids :
        LET t == complex_task.task_ids[k]
        IN  tasks[t].status = status /\ ~InQueue(t) /\ Holders(t) = {}}

\* one step task has ended CANCELLED and every other one COMPLETED
OneCancelledOthersCompleted ==
    /\ complex_task.status # "none"
    /\ Cardinality(EndedWith(CANCELLED)) = 1
    /\ Cardinality(EndedWith(COMPLETED)) = complex_task.total_steps - 1

\* C30: a project one of whose step tasks has ended CANCELLED while all the
\* others have ended COMPLETED is EXECUTING with its monitor polling, and stays
\* so: that situation never ends, and every poll in it leaves the project
\* EXECUTING, neither COMPLETED nor PAUSED, and the monitor asleep for another
\* poll.
C30_CancelledStepKeepsExecuting ==
    /\ [](OneCancelledOthersCompleted =>
             complex_task.status = "executing" /\ mpc = "sleep")
    /\ [][OneCancelledOthersCompleted =>
             /\ OneCancelledOthersCompleted'
             /\ complex_task'.status = "executing"
             /\ mpc' = "sleep"]_vars

\* the last step was cancelled, the other completed, and the monitor has
\* polled since: it reports all but one step completed and still EXECUTING
C30_Witness ==
    /\ OneCancelledOthersCompleted
    /\ complex_task.status = "executing"
    /\ complex_task.current_step = complex_task.total_steps
    /\ complex_task.progress = progress_of(complex_task.total_steps - 1,
                                          complex_task.total_steps)
    /\ mpc = "sleep"

(* ======================= TaskExecutor workflows ======================= *)
\* src/tasks/task_executor.py: execute_workflow creates one task per step and
\* starts _monitor_workflow. Neither create_task nor get_task_status suspends,
\* so execute_workflow is one step and the monitor suspends in asyncio.sleep(2)
\* only: one pass of its while loop is one step.

\* number of steps of the workflows explored
WorkflowSteps == 2
\* the 'id' of the steps of a workflow definition
WorkflowStepIds == 1..WorkflowSteps
\* a step id that no step of the definition carries
DynamicStepId == WorkflowSteps + 1
\* at most this many conditions hang on one step
MaxConditions == 2
\* the task ids a run can hand out: one per step, one per condition
WorkflowTaskIds == 1..(WorkflowSteps * (1 + MaxConditions))

\* dict.get(key) on the result an agent returned
result_get(result, key) ==
    IF key = "status" /\ result = SuccessResult THEN "success"
    ELSE IF key = "status" /\ result = ErrorResult THEN "error"
    ELSE None
\* result.get('quality_score', 0): the agents' results carry no quality_score
quality_score(result) == 0

\* TaskExecutor._check_condition
check_condition_always(condition, task_status) == TRUE
check_condition(condition, task_status) ==
    IF condition.type = "result_contains"
    THEN result_get(task_status.result, condition.key) = condition.value
    ELSE IF condition.type = "quality_threshold"
    THEN quality_score(task_status.result) >= condition.threshold
    ELSE FALSE

\* the actions a condition can carry
ExecuteStep(step_id) ==
    [type |-> "execute_step", step_type |-> "x", step_id |-> step_id,
     required_capabilities |-> {"x"}]
Notify == [type |-> "notify", step_type |-> "x", step_id |-> DynamicStepId,
           required_capabilities |-> {}]
\* the conditions of the definitions explored
WhenResultContains(value, action) ==
    [type |-> "result_contains", key |-> "status", value |-> value,
     threshold |-> 0, action |-> action]
WhenQualityAtLeast(threshold, action) ==
    [type |-> "quality_threshold", key |-> "status", value |-> None,
     threshold |-> threshold, action |-> action]
\* conditions.get(step_id, []) of a definition
ConditionLists ==
    { <<>>,
      <<WhenResultContains("success", ExecuteStep(DynamicStepId))>>,
      <<WhenResultContains("success", ExecuteStep(WorkflowSteps)),
        WhenQualityAtLeast(80, ExecuteStep(DynamicStepId))>>,
      <<WhenQualityAtLeast(0, ExecuteStep(DynamicStepId)),
        WhenResultContains("success", Notify)>> }

\* the workflow definitions explored: every step of type x with its own
\* on_failure; conditions hang on the first and on the last step
WorkflowDefinitions ==
    {[on_failure |-> f,
      conditions |-> [k \in WorkflowStepIds |->
                         IF k = 1 THEN first
                         ELSE IF k = WorkflowSteps THEN last ELSE <<>>]] :
        f \in [WorkflowStepIds -> {"stop", "continue"}],
        first \in ConditionLists,
        last \in {<<>>, <<WhenResultContains("success", ExecuteStep(DynamicStepId))>>}}

\* TaskExecutor._parse_workflow_priority
parse_workflow_priority(priority_str) ==
    IF priority_str \in TaskPriority THEN priority_str ELSE "medium"

\* execute_workflow: one task per step, the step -> task map, then the monitor
\* is started and reaches its first sleep (or finalizes an empty workflow)
execute_workflow(definition) ==
    /\ wfpc = "none"
    /\ LET n == WorkflowSteps
           first == next_id
           step_task == new_task("x", {"x"}, parse_workflow_priority("medium"),
                                 {}, DefaultTimeout)
       IN  /\ tasks' = [t \in DOMAIN tasks \cup (first..(first + n - 1)) |->
                           IF t >= first THEN step_task ELSE tasks[t]]
           /\ task_queue' = task_queue \o [k \in 1..n |-> first + k - 1]
           /\ next_id' = next_id + n
           /\ workflow' = [steps |-> [k \in 1..n |->
                                        [id |-> k, on_failure |-> definition.on_failure[k]]],
                           conditions |-> definition.conditions,
                           task_map |-> [k \in 1..n |-> first + k - 1],
                           completed_steps |-> {},
                           workflow_results |-> <<>>]
           /\ wfpc' = IF n > 0 THEN "sleep" ELSE "done"
    /\ wfh' = [evaluations |-> [k \in WorkflowStepIds |-> 0],
               observed_failed |-> {}, broke |-> FALSE]
    /\ UNCHANGED <<is_running, is_initialized, agent_registry, wpc, wtask, wagent,
                   stopping, ret, executions, cancelled_at,
                   find_vars, status_ret, project_vars, cleanup_vars>>

\* what get_task_result reports as the status of a task during a poll; created
\* holds the tasks the poll itself has created so far (they are PENDING)
status_seen(task_id, created) ==
    IF task_id >= next_id THEN PENDING
    ELSE IF task_id \in Table THEN tasks[task_id].status
    ELSE None

\* m with m[key] = value, the key being added when it is new
MapPut(m, key, value) ==
    [k \in DOMAIN m \cup {key} |-> IF k = key THEN value ELSE m[k]]

\* the loop of _evaluate_conditions over the step's conditions from position j
\* on; acc carries task_map and the tasks created so far in this poll
RECURSIVE evaluate_conditions_loop(_, _, _, _)
evaluate_conditions_loop(step_conditions, j, task_status, acc) ==
    IF j > Len(step_conditions) THEN acc
    ELSE LET condition == step_conditions[j]
             action == condition.action
             new_task_id == next_id + Len(acc.created)
         IN  IF check_condition(condition, task_status) /\ action.type = "execute_step"
             THEN evaluate_conditions_loop(step_conditions, j + 1, task_status,
                      [acc EXCEPT
                          !.created = Append(@, new_task(action.step_type,
                                                         action.required_capabilities,
                                                         "medium", {}, DefaultTimeout)),
                          !.task_map = MapPut(@, action.step_id, new_task_id)])
             ELSE evaluate_conditions_loop(step_conditions, j + 1, task_status, acc)

\* TaskExecutor._evaluate_conditions for a step observed COMPLETED
evaluate_conditions(step_id, task_status, acc) ==
    evaluate_conditions_loop(workflow.conditions[step_id], 1, task_status,
        [acc EXCEPT !.evaluations[step_id] = @ + 1])

\* the for loop of _monitor_workflow over steps from position i on
RECURSIVE monitor_workflow_for(_, _)
monitor_workflow_for(i, acc) ==
    IF i > Len(workflow.steps) THEN acc
    ELSE LET step == workflow.steps[i]
             task_id == acc.task_map[step.id]
             status == status_seen(task_id, acc.created)
         IN  IF step.id \in acc.completed_steps
             THEN monitor_workflow_for(i + 1, acc)
             ELSE IF status = COMPLETED
             THEN monitor_workflow_for(i + 1,
                      evaluate_conditions(step.id, tasks[task_id],
                          [acc EXCEPT
                              !.completed_steps = @ \cup {step.id},
                              !.workflow_results =
                                  MapPut(@, step.id, tasks[task_id].result)]))
             ELSE IF status = FAILED
             THEN IF step.on_failure = "continue"
                  THEN monitor_workflow_for(i + 1,
                           [acc EXCEPT !.completed_steps = @ \cup {step.id},
                                       !.observed_failed = @ \cup {step.id}])
                  ELSE [acc EXCEPT !.observed_failed = @ \cup {step.id},
                                   !.broke = TRUE]
             ELSE monitor_workflow_for(i + 1, acc)

\* the test of 'while len(completed_steps) < len(steps)' after a pass of the for
\* loop: sleep again, or leave the loop and call _finalize_workflow
while_test(acc) ==
    IF Cardinality(acc.completed_steps) < Len(workflow.steps) THEN "sleep" ELSE "done"

\* the result of one pass of the for loop started in the current state
poll_result ==
    monitor_workflow_for(1,
        [completed_steps |-> workflow.completed_steps,
         workflow_results |-> workflow.workflow_results,
         task_map |-> workflow.task_map,
         created |-> <<>>,
         evaluations |-> wfh.evaluations,
         observed_failed |-> wfh.observed_failed,
         broke |-> FALSE])

\* one pass of the while loop of _monitor_workflow, from the return of
\* asyncio.sleep(2) to the next sleep or to _finalize_workflow
workflow_poll ==
    /\ wfpc = "sleep"
    /\ LET acc == poll_result
           n == Len(acc.created)
       IN  \* the ids of the run are not exhausted
           /\ next_id + n - 1 <= Cardinality(DOMAIN executions)
           /\ workflow' = [workflow EXCEPT !.completed_steps = acc.completed_steps,
                                           !.workflow_results = acc.workflow_results,
                                           !.task_map = acc.task_map]
           /\ tasks' = [t \in DOMAIN tasks \cup (next_id..(next_id + n - 1)) |->
                           IF t >= next_id THEN acc.created[t - next_id + 1]
                           ELSE tasks[t]]
           /\ task_queue' = task_queue \o [k \in 1..n |-> next_id + k - 1]
           /\ next_id' = next_id + n
           /\ wfh' = [evaluations |-> acc.evaluations,
                      observed_failed |-> acc.observed_failed,
                      broke |-> acc.broke]
           /\ wfpc' = while_test(acc)
    /\ UNCHANGED <<is_running, is_initialized, agent_registry, wpc, wtask, wagent,
                   stopping, ret, executions, cancelled_at,
                   find_vars, status_ret, project_vars, cleanup_vars>>

\* what agent.execute does for the tasks of a workflow
WorkflowOutcomes == {"success", "timeout"}

WorkflowInit == StartState(WorkflowTaskIds, <<"a2", "a1">>) /\ OutsideInit

WorkflowNext ==
    \/ \E definition \in WorkflowDefinitions : execute_workflow(definition)
    \/ initialize
    \/ workflow_poll
    \/ \E w \in Workers : worker_get(w)
    \/ \E w \in Workers : \E perf \in PerformanceChoices : worker_dispatch(w, perf)
    \/ \E w \in Workers, o \in WorkflowOutcomes : process_task_end(w, o)

WorkflowSpec == WorkflowInit /\ [][WorkflowNext]_vars

\* C21: a poll of the workflow monitor that observes FAILED a step whose
\* on_failure is "stop" ends the monitor loop: the monitor does not sleep and
\* poll again, the workflow is finalized.
C21_StopOnFailureHaltsMonitor ==
    [][(workflow_poll /\ poll_result.broke) => wfpc' = "done"]_vars

\* the steps a poll newly records as completed with a result: those whose task
\* it observed COMPLETED
NewlyCompleted == DOMAIN workflow'.workflow_results \ DOMAIN workflow.workflow_results

\* a condition of the definitions explored is satisfied by a result
Met(condition, result) ==
    \/ /\ condition.type = "result_contains"
       /\ \/ condition.value = "success" /\ result = SuccessResult
          \/ condition.value = "error" /\ result = ErrorResult
    \/ condition.type = "quality_threshold" /\ condition.threshold <= 0

\* the satisfied execute_step conditions of step s, as positions of its list
Triggered(s) ==
    {j \in 1..Len(workflow.conditions[s]) :
        /\ workflow.conditions[s][j].action.type = "execute_step"
        /\ Met(workflow.conditions[s][j], tasks[workflow.task_map[s]].result)}

\* the number of satisfied execute_step conditions of the steps of S
RECURSIVE TriggeredTotal(_)
TriggeredTotal(S) ==
    IF S = {} THEN 0
    ELSE LET s == CHOOSE x \in S : TRUE
         IN  Cardinality(Triggered(s)) + TriggeredTotal(S \ {s})

\* C24: in a workflow run the conditions of a step are evaluated once, in the
\* poll that first observes the step's task COMPLETED and records its result,
\* and in no other poll, in particular not in a poll that finds the step's task
\* FAILED; each satisfied condition whose action is execute_step creates one
\* new PENDING task, queued, and the step -> task map holds a task of that poll
\* under the action's step_id.
C24_ConditionsEvaluatedOnce ==
    [][workflow_poll =>
         /\ \A s \in WorkflowStepIds :
               /\ wfh'.evaluations[s] =
                     wfh.evaluations[s] + (IF s \in NewlyCompleted THEN 1 ELSE 0)
               /\ wfh'.evaluations[s] <= 1
               /\ s \in NewlyCompleted =>
                     /\ s \notin workflow.completed_steps
                     /\ tasks[workflow.task_map[s]].status = COMPLETED
               /\ (s \notin workflow.completed_steps
                   /\ tasks[workflow.task_map[s]].status = FAILED) =>
                     /\ s \notin NewlyCompleted
                     /\ wfh'.evaluations[s] = wfh.evaluations[s]
         /\ next_id' = next_id + TriggeredTotal(NewlyCompleted)
         /\ DOMAIN tasks' = DOMAIN tasks \cup (next_id..(next_id' - 1))
         /\ \A t \in next_id..(next_id' - 1) :
               tasks'[t].status = PENDING /\ t \in SeqToSet(task_queue')
         /\ \A s \in NewlyCompleted : \A j \in Triggered(s) :
               LET step_id == workflow.conditions[s][j].action.step_id
               IN  /\ step_id \in DOMAIN workflow'.task_map
                   /\ workflow'.task_map[step_id] \in next_id..(next_id' - 1)
    ]_vars

\* the first step completed and its condition created the task of a new step;
\* the last step, which has a condition too, failed under on_failure
\* 'continue' and its condition was not evaluated
C24_Witness ==
    /\ wfpc # "none"
    /\ wfh.evaluations[1] = 1
    /\ DynamicStepId \in DOMAIN workflow.task_map
    /\ workflow.task_map[DynamicStepId] \in DOMAIN tasks
    /\ WorkflowSteps \in wfh.observed_failed
    /\ WorkflowSteps \in workflow.completed_steps
    /\ workflow.conditions[WorkflowSteps] # <<>>
    /\ wfh.evaluations[WorkflowSteps] = 0
====
